---- MODULE Spec2Model ----
(***************************************************************************)
(* Model of add_blog_post.py: read_blog_post, process_content,             *)
(* add_blog_post_to_html and main.                                         *)
(*                                                                         *)
(* Text is a sequence of symbols.  A line of the post file is a sequence   *)
(* of single characters, so that strip(), lower() and the image regular    *)
(* expression work on characters.  In an HTML text every literal the       *)
(* program searches for or emits ('<h1>Blog</h1>', '</div>', an            *)
(* indentation run, ...) is one symbol and every newline is the symbol     *)
(* "\n" of its own; str.find/str.rfind and slicing work on symbol          *)
(* offsets, counted from 0 as in Python.                                   *)
(***************************************************************************)
EXTENDS Integers, Sequences, FiniteSets, TLC

VARIABLES
    post_file,          \* the post file: a sequence of raw lines
    blog_html,          \* the stored text of Blog.html
    mpc,                \* main: position
    result,             \* main: what read_blog_post returned
    fpc,                \* process_content: position
    content_lines,      \* process_content: its argument
    i,                  \* process_content: number of lines consumed by the loop
    current_paragraph,  \* process_content: pending text lines
    processed_blocks,   \* process_content: blocks emitted so far
    processed_content,  \* process_content: the returned HTML
    upc,                \* add_blog_post_to_html, per invocation: position
    title,              \* its title argument
    content,            \* its content argument
    html_content,       \* the text it read from Blog.html
    updated_html,       \* the text it is about to write
    ret,                \* what it returned: "none" while running, "True", "False"
    msg,                \* which message it printed
    calls,              \* number of invocations started so far
    prev,               \* the call before this one: <<>>, or <<title, ret, document it left>>
    last_writer         \* the invocation whose f.write came last (0: none yet)

fmtVars == <<fpc, content_lines, i, current_paragraph, processed_blocks, processed_content>>
mainVars == <<post_file, mpc, result>>
updVars == <<upc, title, content, html_content, updated_html, ret, msg>>
vars == <<post_file, blog_html, mpc, result, fpc, content_lines, i, current_paragraph,
          processed_blocks, processed_content, upc, title, content, html_content,
          updated_html, ret, msg, calls, prev, last_writer>>

-----------------------------------------------------------------------------
(* Bounds of the model *)

MaxBody == 4
MaxMixedBody == 3
MaxFileLines == 4
MaxDoc == 3
MaxCalls == 2

-----------------------------------------------------------------------------
(* Python string primitives *)

Min(a, b) == IF a < b THEN a ELSE b

\* s[a:b] for 0 <= a, b
Slice(s, a, b) == SubSeq(s, a + 1, Min(b, Len(s)))

\* s[a:]
From(s, a) == SubSeq(s, a + 1, Len(s))

\* s.find(sub, start): the lowest offset >= start where sub occurs, or -1
Find(s, sub, start) ==
    LET hits == {k \in start..(Len(s) - Len(sub)) : Slice(s, k, k + Len(sub)) = sub}
    IN  IF hits = {} THEN -1 ELSE CHOOSE k \in hits : \A h \in hits : k <= h

\* s.rfind(sub, start, end): the highest offset where sub occurs within s[start:end], or -1
RFind(s, sub, start, end) ==
    LET hits == {k \in start..(Min(end, Len(s)) - Len(sub)) : Slice(s, k, k + Len(sub)) = sub}
    IN  IF hits = {} THEN -1 ELSE CHOOSE k \in hits : \A h \in hits : k >= h

\* sub in s
Contains(s, sub) == Find(s, sub, 0) # -1

Whitespace == {" ", "\t", "\n", "\r"}

RECURSIVE LStrip(_)
LStrip(s) == IF s # <<>> /\ Head(s) \in Whitespace THEN LStrip(Tail(s)) ELSE s

RECURSIVE RStrip(_)
RStrip(s) ==
    IF s # <<>> /\ s[Len(s)] \in Whitespace THEN RStrip(SubSeq(s, 1, Len(s) - 1)) ELSE s

\* s.strip()
Strip(s) == RStrip(LStrip(s))

UpperCase == <<"A","B","C","D","E","F","G","H","I","J","K","L","M","N","O","P","Q","R","S","T","U","V","W","X","Y","Z">>
LowerCase == <<"a","b","c","d","e","f","g","h","i","j","k","l","m","n","o","p","q","r","s","t","u","v","w","x","y","z">>

LowerChar(c) ==
    IF \E k \in 1..Len(UpperCase) : UpperCase[k] = c
    THEN LowerCase[CHOOSE k \in 1..Len(UpperCase) : UpperCase[k] = c]
    ELSE c

\* s.lower()
Lower(s) == [k \in 1..Len(s) |-> LowerChar(s[k])]

\* sep.join(parts)
RECURSIVE Join(_, _)
Join(sep, parts) ==
    IF parts = <<>> THEN <<>>
    ELSE IF Len(parts) = 1 THEN parts[1]
    ELSE parts[1] \o sep \o Join(sep, Tail(parts))

-----------------------------------------------------------------------------
(* process_content: the image pattern                                      *)
(*   ^(https?://\S+\.(jpg|jpeg|png|gif))\s+(left|center|right)$   (re.I)   *)

SchemeHttp == <<"h","t","t","p",":","/","/">>
SchemeHttps == <<"h","t","t","p","s",":","/","/">>
jpg == <<"j","p","g">>
jpeg == <<"j","p","e","g">>
png == <<"p","n","g">>
gif == <<"g","i","f">>
left == <<"l","e","f","t">>
center == <<"c","e","n","t","e","r">>
right == <<"r","i","g","h","t">>

ImgSchemes == {SchemeHttp, SchemeHttps}
\* the extensions with bmp let through
ImgExtsWithBmp == {jpg, jpeg, png, gif, <<"b","m","p">>}
\* (jpg|jpeg|png|gif)
ImgExts == {jpg, jpeg, png, gif}
ImgAligns == {left, center, right}

\* the literal lit matches at offset k of line, ignoring case
LitAt(line, lit, k) == k >= 0 /\ k + Len(lit) <= Len(line) /\ Lower(Slice(line, k, k + Len(lit))) = lit

\* $ : the end of the string, or just before a newline that ends it
AtEnd(line, k) ==
    k = Len(line) \/ (Len(line) > 0 /\ k = Len(line) - 1 /\ line[Len(line)] = "\n")

\* group 1 ends at offset e: https?:// at the start, \S+, a dot and an extension
UrlEndsAt(line, e) ==
    \E sc \in ImgSchemes, ext \in ImgExts :
        LET dot == e - Len(ext) - 1 IN
        /\ LitAt(line, sc, 0)
        /\ dot >= Len(sc) + 1
        /\ line[dot + 1] = "."
        /\ LitAt(line, ext, dot + 1)
        /\ \A k \in Len(sc)..(dot - 1) : line[k + 1] \notin Whitespace

\* The ways the pattern matches line, each as <<end of group 1, start of group 3,
\* end of group 3>>: the keyword ends where $ holds, \s+ fills what lies between
\* the groups.  \S+ and \s+ cannot overlap, so there is at most one.
ImgMatches(line) ==
    UNION {IF LitAt(line, al, n - Len(al))
           THEN {<<e, n - Len(al), n>> : e \in {e \in 0..(n - Len(al) - 1) :
                    /\ \A k \in e..(n - Len(al) - 1) : line[k + 1] \in Whitespace
                    /\ UrlEndsAt(line, e)}}
           ELSE {}
           : al \in ImgAligns, n \in {n \in {Len(line), Len(line) - 1} : AtEnd(line, n)}}

\* img_pattern.match(line) is not None
ImgMatch(line) == ImgMatches(line) # {}

\* match.group(1)
ImgUrl(line) == LET m == CHOOSE m \in ImgMatches(line) : TRUE IN Slice(line, 0, m[1])

\* match.group(3) in the case the line has it
ImgAlignmentRaw(line) == LET m == CHOOSE m \in ImgMatches(line) : TRUE IN Slice(line, m[2], m[3])

\* match.group(3).lower()
ImgAlignment(line) ==
    LET m == CHOOSE m \in ImgMatches(line) : TRUE IN Lower(Slice(line, m[2], m[3]))

-----------------------------------------------------------------------------
(* process_content: the block loop.  A text block is <<"text", text>>, an  *)
(* image block <<"image", url, alignment>>, as the tuples of the source.   *)
(* Each branch maps <<current_paragraph, processed_blocks>> to its new     *)
(* value.                                                                  *)

Space == <<" ">>

\* if current_paragraph: append ('text', ' '.join(current_paragraph)) and clear
FlushParagraph(cp, pb) ==
    IF cp # <<>> THEN <<<<>>, Append(pb, <<"text", Join(Space, cp)>>)>> ELSE <<cp, pb>>

\* the image branch without the flush of the pending paragraph
OnImageNoFlush(cp, pb, line) ==
    <<cp, Append(pb, <<"image", ImgUrl(line), ImgAlignment(line)>>)>>

\* if match: flush pending text, then emit the image block
OnImage(cp, pb, line) ==
    LET f == FlushParagraph(cp, pb)
    IN  <<f[1], Append(f[2], <<"image", ImgUrl(line), ImgAlignment(line)>>)>>

\* a blank line that is skipped without closing the paragraph
OnBlankNoBreak(cp, pb) == <<cp, pb>>

\* elif not line: an empty line closes the pending paragraph
OnBlank(cp, pb) == FlushParagraph(cp, pb)

\* else: current_paragraph.append(line)
OnText(cp, pb, line) == <<Append(cp, line), pb>>

\* one iteration of the for loop on a raw line
ProcessLine(cp, pb, raw) ==
    LET line == Strip(raw) IN
    IF ImgMatch(line) THEN OnImage(cp, pb, line)
    ELSE IF line = <<>> THEN OnBlank(cp, pb)
    ELSE OnText(cp, pb, line)

\* the whole loop and the flush after it: the list processed_blocks
RECURSIVE BlockLoop(_, _, _)
BlockLoop(cp, pb, lines) ==
    IF lines = <<>> THEN FlushParagraph(cp, pb)[2]
    ELSE LET s == ProcessLine(cp, pb, Head(lines)) IN BlockLoop(s[1], s[2], Tail(lines))

ProcessedBlocks(lines) == BlockLoop(<<>>, <<>>, lines)

-----------------------------------------------------------------------------
(* process_content: rendering *)

NL == "\n"
Indent8 == "        "
Indent12 == "            "
POpen == "<p>"
PClose == "</p>"
TextAlignOpen == "<div style=\"text-align: "
TextAlignClose == ";\">"
ImgSrcOpen == "<img src=\""
ImgSrcClose == "\" alt=\"Blog image\" style=\"max-width: 100%;\" />"
DivClose == "</div>"

\* the HTML of one block
RenderBlock(block) ==
    IF block[1] = "text"
    THEN <<Indent8, POpen>> \o block[2] \o <<PClose>>
    ELSE <<Indent8, TextAlignOpen>> \o block[3] \o <<TextAlignClose, NL>>
         \o <<Indent12, ImgSrcOpen>> \o block[2] \o <<ImgSrcClose, NL>>
         \o <<Indent8, DivClose>>

\* "\n\n".join(html_parts)
RenderBlocks(blocks) ==
    Join(<<NL, NL>>, [k \in 1..Len(blocks) |-> RenderBlock(blocks[k])])

\* process_content as a function of its argument
ProcessContent(lines) == RenderBlocks(ProcessedBlocks(lines))

-----------------------------------------------------------------------------
(* process_content as steps: one per line of the loop, the flush after    *)
(* the loop, the rendering and return.                                     *)

\* for line in content_lines: ... (one iteration)
FmtLine ==
    /\ fpc = "loop"
    /\ i < Len(content_lines)
    /\ LET s == ProcessLine(current_paragraph, processed_blocks, content_lines[i + 1]) IN
       /\ current_paragraph' = s[1]
       /\ processed_blocks' = s[2]
    /\ i' = i + 1
    /\ UNCHANGED <<fpc, content_lines, processed_content>>
    /\ UNCHANGED <<mainVars, updVars, blog_html, calls, last_writer, prev>>

\* after the loop: the last paragraph, if there is one
FmtLast ==
    /\ fpc = "loop"
    /\ i = Len(content_lines)
    /\ LET s == FlushParagraph(current_paragraph, processed_blocks) IN
       /\ current_paragraph' = s[1]
       /\ processed_blocks' = s[2]
    /\ fpc' = "render"
    /\ UNCHANGED <<content_lines, i, processed_content>>
    /\ UNCHANGED <<mainVars, updVars, blog_html, calls, last_writer, prev>>

\* the blocks to HTML, joined and returned
FmtRender ==
    /\ fpc = "render"
    /\ processed_content' = RenderBlocks(processed_blocks)
    /\ fpc' = "done"
    /\ UNCHANGED <<content_lines, i, current_paragraph, processed_blocks>>
    /\ UNCHANGED <<mainVars, updVars, blog_html, calls, last_writer, prev>>

-----------------------------------------------------------------------------
(* add_blog_post_to_html *)

H1Blog == "<h1>Blog</h1>"
DivBlogPost == "<div class=\"blog-post\">"
AddMoreComment == "<!-- Add more blog posts"
H2Open == "<h2>"
H2Close == "</h2>"
DivBlogDate == "<div class=\"blog-date\">"
DivBlogBody == "<div class=\"blog-body\">"
HrDivider == "<hr class=\"blog-divider\" />"

\* datetime.now().strftime("%Y-%m-%d %H:%M"): the clock's answers
Dates == {"2024-05-01 09:30", "2024-05-01 09:31"}

\* f'<h2>{title}</h2>'
HeadingTag(t) == <<H2Open>> \o t \o <<H2Close>>

\* the f-string new_post_html
NewPostHtml(t, now, c) ==
    <<NL, Indent8, DivBlogPost, NL, Indent12>> \o HeadingTag(t)
    \o <<NL, Indent12, DivBlogDate, now, DivClose, NL, Indent12, DivBlogBody, NL>>
    \o c
    \o <<NL, Indent12, DivClose, NL, Indent8, DivClose, NL, Indent8, NL,
         Indent8, HrDivider, NL, NL, Indent8>>

\* html_content.find('<h1>Blog</h1>')
BlogContentStart(html) == Find(html, <<H1Blog>>, 0)

\* blog_content_start + len('<h1>Blog</h1>')
ContentStart(html) == BlogContentStart(html) + Len(<<H1Blog>>)

FirstBlogPost(html) == Find(html, <<DivBlogPost>>, ContentStart(html))
CommentPos(html) == Find(html, <<AddMoreComment>>, ContentStart(html))
ContainerEnd(html) == Find(html, <<DivClose>>, ContentStart(html))

\* html_content.rfind('\n', content_start, pos) + 1
LineStart(html, pos) == RFind(html, <<NL>>, ContentStart(html), pos) + 1

\* the anchor search that prefers the closing tag to the comment
InsertionPointTagFirst(html) ==
    IF FirstBlogPost(html) # -1 THEN FirstBlogPost(html)
    ELSE IF ContainerEnd(html) # -1 THEN LineStart(html, ContainerEnd(html))
    ELSE LineStart(html, CommentPos(html))

\* insertion_point, where the document has one
InsertionPoint(html) ==
    IF FirstBlogPost(html) # -1 THEN FirstBlogPost(html)
    ELSE IF CommentPos(html) # -1 THEN LineStart(html, CommentPos(html))
    ELSE LineStart(html, ContainerEnd(html))

\* the checks with the duplicate test left out
OutcomeNoDuplicateCheck(html, t) ==
    IF BlogContentStart(html) = -1 THEN "no heading"
    ELSE IF FirstBlogPost(html) = -1 /\ CommentPos(html) = -1 /\ ContainerEnd(html) = -1
         THEN "no insertion point"
    ELSE "added"

\* the message the function prints: which return it takes
Outcome(html, t) ==
    IF Contains(html, HeadingTag(t)) THEN "duplicate"
    ELSE IF BlogContentStart(html) = -1 THEN "no heading"
    ELSE IF FirstBlogPost(html) = -1 /\ CommentPos(html) = -1 /\ ContainerEnd(html) = -1
         THEN "no insertion point"
    ELSE "added"

\* html_content[:insertion_point] + new_post_html + html_content[insertion_point:]
UpdatedHtml(html, t, now, c) ==
    LET ip == InsertionPoint(html)
    IN  Slice(html, 0, ip) \o NewPostHtml(t, now, c) \o From(html, ip)

\* a write that lands at the end of the file
WriteAppend(file, data) == file \o data

\* f.write on a file opened with 'w': the text lands at offset 0 of whatever the
\* file holds by then, and what lies beyond it stays
WriteAtStart(file, data) == data \o From(file, Len(data))

Procs == {1, 2}

\* with open(blog_html_path, 'r') as f: html_content = f.read()
UpdRead(p) ==
    /\ upc[p] = "read"
    /\ html_content' = [html_content EXCEPT ![p] = blog_html]
    /\ upc' = [upc EXCEPT ![p] = "check"]
    /\ UNCHANGED <<title, content, updated_html, ret, msg, blog_html, last_writer>>
    /\ UNCHANGED <<mainVars, fmtVars, calls, prev>>

\* the duplicate test, the anchor search and the splice, up to the open for writing
UpdCheck(p) ==
    /\ upc[p] = "check"
    /\ LET o == Outcome(html_content[p], title[p]) IN
       IF o = "added"
       THEN /\ \E now \in Dates :
                 updated_html' = [updated_html EXCEPT
                                    ![p] = UpdatedHtml(html_content[p], title[p], now, content[p])]
            /\ upc' = [upc EXCEPT ![p] = "open"]
            /\ UNCHANGED <<ret, msg>>
       ELSE /\ msg' = [msg EXCEPT ![p] = o]
            /\ ret' = [ret EXCEPT ![p] = "False"]
            /\ upc' = [upc EXCEPT ![p] = "done"]
            /\ UNCHANGED updated_html
    /\ UNCHANGED <<title, content, html_content, blog_html, last_writer>>
    /\ UNCHANGED <<mainVars, fmtVars, calls, prev>>

\* open(blog_html_path, 'w'): the file is truncated
UpdOpen(p) ==
    /\ upc[p] = "open"
    /\ blog_html' = <<>>
    /\ upc' = [upc EXCEPT ![p] = "write"]
    /\ UNCHANGED <<title, content, html_content, updated_html, ret, msg, last_writer>>
    /\ UNCHANGED <<mainVars, fmtVars, calls, prev>>

\* f.write(updated_html), the close, the success message and return True
UpdWrite(p) ==
    /\ upc[p] = "write"
    /\ blog_html' = WriteAtStart(blog_html, updated_html[p])
    /\ last_writer' = p
    /\ msg' = [msg EXCEPT ![p] = "added"]
    /\ ret' = [ret EXCEPT ![p] = "True"]
    /\ upc' = [upc EXCEPT ![p] = "done"]
    /\ UNCHANGED <<title, content, html_content, updated_html>>
    /\ UNCHANGED <<mainVars, fmtVars, calls, prev>>

-----------------------------------------------------------------------------
(* read_blog_post and main *)

\* None
None == <<>>

\* read_blog_post that keeps line 2 in the body
ReadBlogPostFromLine2(lines) ==
    IF lines = <<>> THEN None ELSE <<Strip(lines[1]), From(lines, 1)>>

\* read_blog_post on the lines f.readlines() gave: None, or (title, content)
ReadBlogPost(lines) ==
    IF lines = <<>> THEN None ELSE <<Strip(lines[1]), From(lines, 2)>>

\* not result: None is false, and so would an empty tuple be
Falsy(r) == r = None \/ Len(r) = 0

\* result = read_blog_post(blog_post_path)
MainRead ==
    /\ mpc = "read"
    /\ result' = ReadBlogPost(post_file)
    /\ mpc' = "check"
    /\ UNCHANGED <<post_file, fmtVars, updVars, calls>>
    /\ UNCHANGED <<blog_html, prev, last_writer>>

\* if not result: return
MainReturnEarly ==
    /\ mpc = "check"
    /\ Falsy(result)
    /\ mpc' = "done"
    /\ UNCHANGED <<post_file, result, fmtVars, updVars, calls>>
    /\ UNCHANGED <<blog_html, prev, last_writer>>

\* title, content_lines = result; the call of process_content(content_lines)
MainFormat ==
    /\ mpc = "check"
    /\ ~Falsy(result)
    /\ content_lines' = result[2]
    /\ fpc' = "loop"
    /\ mpc' = "format"
    /\ UNCHANGED <<post_file, result, i, current_paragraph, processed_blocks,
                   processed_content, updVars, calls>>
    /\ UNCHANGED <<blog_html, prev, last_writer>>

\* the call add_blog_post_to_html(blog_html_path, title, processed_content)
MainUpdate ==
    /\ mpc = "format"
    /\ fpc = "done"
    /\ title' = [title EXCEPT ![1] = result[1]]
    /\ content' = [content EXCEPT ![1] = processed_content]
    /\ upc' = [upc EXCEPT ![1] = "read"]
    /\ calls' = calls + 1
    /\ mpc' = "update"
    /\ UNCHANGED <<post_file, result, fmtVars, html_content, updated_html, ret, msg>>
    /\ UNCHANGED <<blog_html, prev, last_writer>>

\* add_blog_post_to_html has returned: main ends
MainFinish ==
    /\ mpc = "update"
    /\ upc[1] = "done"
    /\ mpc' = "done"
    /\ UNCHANGED <<post_file, result, fmtVars, updVars, calls>>
    /\ UNCHANGED <<blog_html, prev, last_writer>>

-----------------------------------------------------------------------------
(* Inputs *)

SeqsUpTo(S, n) == UNION {[1..k -> S] : k \in 0..n}

\* lines of a post file
TextAb == <<"a","b">>
TextC == <<" ","c","\n">>
BlankNl == <<"\n">>
ImgLeft == <<"h","t","t","p",":","/","/","x",".","p","n","g"," ","l","e","f","t","\n">>
ImgCenter == <<" ","H","T","T","P","S",":","/","/","y",".","J","P","e","G"," ","\t","C","e","n","T","e","r","\n">>
BadExt == <<"h","t","t","p",":","/","/","x",".","b","m","p"," ","c","e","n","t","e","r","\n">>
NoAlign == <<"h","t","t","p",":","/","/","x",".","p","n","g","\n">>
BadAlign == <<"h","t","t","p",":","/","/","x",".","p","n","g"," ","m","i","d","\n">>
Trailing == <<"h","t","t","p",":","/","/","x",".","p","n","g"," ","l","e","f","t"," ","z","\n">>
BadScheme == <<"f","t","p",":","/","/","x",".","p","n","g"," ","l","e","f","t","\n">>
TitleA == <<" ","a"," ","\n">>

TextLines == {TextAb, TextC}
BlankLines == {BlankNl}
ImageLines == {ImgLeft, ImgCenter}
MalformedLines == {BadExt, NoAlign, BadAlign, Trailing, BadScheme}
CoreLines == TextLines \cup BlankLines \cup ImageLines \cup {BadExt}
BodyLines == TextLines \cup BlankLines \cup ImageLines \cup MalformedLines

\* the bodies process_content is given: the longer ones of text, blank and image
\* lines and one malformed line, the shorter ones of every kind of line
Bodies == SeqsUpTo(CoreLines, MaxBody) \cup SeqsUpTo(BodyLines, MaxMixedBody)

\* the post files main is given
FileLines == {TitleA, BlankNl, TextAb, ImgLeft}
Files == SeqsUpTo(FileLines, MaxFileLines)

\* Blog.html as the site ships it: one post, the comment, the container's end
DocSite ==
    <<"<body>", NL, Indent8, H1Blog, NL, Indent8, DivBlogPost, NL, Indent12, H2Open, "o",
      H2Close, NL, Indent8, DivClose, NL, Indent8, AddMoreComment, " here -->", NL,
      DivClose, NL>>
\* no post yet, the comment indented on a line of its own
DocComment == <<"<body>", NL, H1Blog, NL, Indent8, AddMoreComment, " here -->", NL, DivClose, NL>>
\* no post and no comment, the closing tag indented on a later line
DocClosing == <<"<body>", NL, H1Blog, NL, "<p>", "</p>", NL, Indent8, DivClose, NL>>
\* the comment on the heading's line
DocCommentInline == <<"<body>", NL, H1Blog, AddMoreComment, " here -->", NL, DivClose>>
\* the closing tag on the heading's line
DocClosingInline == <<"<body>", NL, H1Blog, DivClose, NL>>
\* no heading marker
DocNoHeading == <<"<body>", NL, "<h1>News</h1>", NL, DivBlogPost, DivClose, NL>>
\* a heading marker and nothing to anchor to after it
DocNoAnchor == <<DivBlogPost, DivClose, AddMoreComment, NL, H1Blog, NL, "<p>", "</p>", NL>>
\* a post before the heading only, the closing tag before the comment
DocPostBefore == <<DivBlogPost, DivClose, NL, H1Blog, NL, DivClose, NL, AddMoreComment, NL>>
\* a post titled a already there
DocHasA == <<H1Blog, NL, DivBlogPost, H2Open, "a", H2Close, DivClose, NL>>
\* a heading titled a and no heading marker
DocHasANoHeading == <<H2Open, "a", H2Close, NL, DivClose>>

SiteDocs == {DocSite, DocComment, DocClosing, DocCommentInline, DocClosingInline,
             DocNoHeading, DocNoAnchor, DocPostBefore, DocHasA, DocHasANoHeading, <<>>}

DocSymbols == {H1Blog, DivBlogPost, AddMoreComment, DivClose, NL}

\* the documents add_blog_post_to_html is tried on
Docs == SiteDocs \cup SeqsUpTo(DocSymbols, MaxDoc)

Titles == {<<"a">>, <<>>}
Contents == {ProcessContent(<<>>), ProcessContent(<<TextAb, ImgLeft>>)}

RaceTitles == {<<"a">>, <<"b", "c">>}
RaceDocs == {DocSite, DocComment, DocClosingInline, DocNoHeading}

-----------------------------------------------------------------------------
(* Specifications *)

NoProc == [p \in Procs |-> <<>>]

IdleFmt ==
    /\ fpc = "idle" /\ content_lines = <<>> /\ i = 0
    /\ current_paragraph = <<>> /\ processed_blocks = <<>> /\ processed_content = <<>>

IdleMain == post_file = <<>> /\ mpc = "idle" /\ result = None

IdleUpd ==
    /\ upc = [p \in Procs |-> "idle"]
    /\ title = NoProc /\ content = NoProc /\ html_content = NoProc /\ updated_html = NoProc
    /\ ret = [p \in Procs |-> "none"] /\ msg = [p \in Procs |-> "none"]
    /\ calls = 0 /\ prev = <<>> /\ last_writer = 0

\* process_content on every body
InitFmt ==
    /\ content_lines \in Bodies
    /\ fpc = "loop" /\ i = 0
    /\ current_paragraph = <<>> /\ processed_blocks = <<>> /\ processed_content = <<>>
    /\ blog_html = <<>>
    /\ IdleMain /\ IdleUpd

NextFmt == FmtLine \/ FmtLast \/ FmtRender

SpecFmt == InitFmt /\ [][NextFmt]_vars

\* one run of main on every post file and every document of the site
InitMain ==
    /\ post_file \in Files
    /\ blog_html \in SiteDocs
    /\ mpc = "read" /\ result = None
    /\ IdleFmt /\ IdleUpd

NextMain ==
    \/ MainRead \/ MainReturnEarly \/ MainFormat \/ MainUpdate \/ MainFinish
    \/ FmtLine \/ FmtLast \/ FmtRender
    \/ UpdRead(1) \/ UpdCheck(1) \/ UpdOpen(1) \/ UpdWrite(1)

SpecMain == InitMain /\ [][NextMain]_vars

\* a caller invoking add_blog_post_to_html again and again, one call after the other
Call ==
    /\ upc[1] \in {"idle", "done"}
    /\ calls < MaxCalls
    /\ \E t \in Titles, c \in Contents :
          /\ title' = [title EXCEPT ![1] = t]
          /\ content' = [content EXCEPT ![1] = c]
    /\ prev' = IF calls = 0 THEN <<>> ELSE <<title[1], ret[1], blog_html>>
    /\ upc' = [upc EXCEPT ![1] = "read"]
    /\ ret' = [ret EXCEPT ![1] = "none"]
    /\ msg' = [msg EXCEPT ![1] = "none"]
    /\ calls' = calls + 1
    /\ UNCHANGED <<mainVars, fmtVars, blog_html, html_content, updated_html, last_writer>>

InitUpd ==
    /\ blog_html \in Docs
    /\ IdleMain /\ IdleFmt /\ IdleUpd

NextUpd == Call \/ UpdRead(1) \/ UpdCheck(1) \/ UpdOpen(1) \/ UpdWrite(1)

Spec == InitUpd /\ [][NextUpd]_vars

\* two invocations started together on the same document
InitRace ==
    /\ blog_html \in RaceDocs
    /\ title \in [Procs -> RaceTitles]
    /\ content = [p \in Procs |-> ProcessContent(<<>>)]
    /\ upc = [p \in Procs |-> "read"]
    /\ html_content = NoProc /\ updated_html = NoProc
    /\ ret = [p \in Procs |-> "none"] /\ msg = [p \in Procs |-> "none"]
    /\ calls = 2 /\ prev = <<>> /\ last_writer = 0
    /\ IdleMain /\ IdleFmt

NextRace == \E p \in Procs : UpdRead(p) \/ UpdCheck(p) \/ UpdOpen(p) \/ UpdWrite(p)

SpecRace == InitRace /\ [][NextRace]_vars

-----------------------------------------------------------------------------
(* What the claims are stated with *)

\* l without its leading and trailing whitespace: from its first symbol that is
\* not whitespace to its last
TrimOf(l) ==
    LET ink == {k \in 1..Len(l) : l[k] \notin Whitespace}
    IN  IF ink = {} THEN <<>>
        ELSE SubSeq(l, CHOOSE a \in ink : \A k \in ink : a <= k,
                       CHOOSE b \in ink : \A k \in ink : b >= k)

\* the places (from 1) where sym stands in h, in order
Positions(h, sym) == SelectSeq([k \in 1..Len(h) |-> k], LAMBDA k : h[k] = sym)

\* in h, sym at place pos is followed by seq and then by close
Encloses(h, pos, seq, close) ==
    /\ pos + Len(seq) + 1 <= Len(h)
    /\ SubSeq(h, pos + 1, pos + Len(seq)) = seq
    /\ h[pos + Len(seq) + 1] = close

IsText(block) == block[1] = "text"
IsImage(block) == block[1] = "image"

\* the elements of a set of numbers in increasing order
RECURSIVE Sorted(_)
Sorted(S) ==
    IF S = {} THEN <<>>
    ELSE LET m == CHOOSE m \in S : \A x \in S : m <= x IN <<m>> \o Sorted(S \ {m})

-----------------------------------------------------------------------------
(* C4 *)

UrlX == <<"h","t","t","p",":","/","/","x",".","p","n","g">>
UrlY == <<"H","T","T","P","S",":","/","/","y",".","J","P","e","G">>

\* the URL and the alignment keyword, lower-cased, that each image line carries
UrlOfLine(l) == IF l = ImgLeft THEN UrlX ELSE UrlY
AlignOfLine(l) == IF l = ImgLeft THEN left ELSE center

OnlyImageLines == \A k \in 1..Len(content_lines) : content_lines[k] \in ImageLines

\* C4: when process_content has returned for a body made only of image lines, the
\* blocks are one image block per line, in order, each with the line's URL and its
\* alignment keyword in lower case; the HTML holds no paragraph and exactly one
\* image container per line, the k-th with the k-th line's alignment as its
\* text-align value and the k-th line's URL as its src.
C4_ImageOnlyBody ==
    (fpc = "done" /\ OnlyImageLines) =>
        LET n == Len(content_lines)
            divs == Positions(processed_content, TextAlignOpen)
            imgs == Positions(processed_content, ImgSrcOpen)
        IN  /\ processed_blocks =
                 [k \in 1..n |-> <<"image", UrlOfLine(content_lines[k]), AlignOfLine(content_lines[k])>>]
            /\ Positions(processed_content, POpen) = <<>>
            /\ Len(divs) = n /\ Len(imgs) = n
            /\ \A k \in 1..n :
                  /\ Encloses(processed_content, divs[k], AlignOfLine(content_lines[k]), TextAlignClose)
                  /\ Encloses(processed_content, imgs[k], UrlOfLine(content_lines[k]), ImgSrcClose)
                  /\ divs[k] < imgs[k]
                  /\ k < n => imgs[k] < divs[k + 1]

C4_Witness ==
    /\ fpc = "done"
    /\ content_lines = <<ImgCenter, ImgLeft, ImgCenter>>
    /\ Len(processed_blocks) = 3
    /\ processed_blocks[1][3] = center

-----------------------------------------------------------------------------
(* C5 *)

\* a line that is neither blank nor an image line
IsTextLine(l) == l \notin BlankLines /\ l \notin ImageLines

\* the first lines of the maximal runs of text lines of body
RunStarts(body) ==
    {a \in 1..Len(body) : IsTextLine(body[a]) /\ (a = 1 \/ ~IsTextLine(body[a - 1]))}

\* the last line of the run that starts at a
RunEnd(body, a) ==
    CHOOSE b \in a..Len(body) :
        /\ \A k \in a..b : IsTextLine(body[k])
        /\ (b = Len(body) \/ ~IsTextLine(body[b + 1]))

\* the text of the run that starts at a: the trimmed lines, a space between them
RunText(body, a) == Join(Space, [k \in 1..(RunEnd(body, a) - a + 1) |-> TrimOf(body[a + k - 1])])

ExpectedParagraphs(body) ==
    LET starts == Sorted(RunStarts(body))
    IN  [k \in 1..Len(starts) |-> <<"text", RunText(body, starts[k])>>]

\* C5: when process_content has returned, its text blocks are exactly the maximal
\* runs of consecutive non-blank, non-image lines, in order, each the trimmed lines
\* of its run joined by single spaces; no text block is empty, and the HTML holds
\* one paragraph per run.
C5_ParagraphsAreMaximalRuns ==
    fpc = "done" =>
        /\ SelectSeq(processed_blocks, IsText) = ExpectedParagraphs(content_lines)
        /\ \A k \in 1..Len(processed_blocks) :
              IsText(processed_blocks[k]) => processed_blocks[k][2] # <<>>
        /\ Len(Positions(processed_content, POpen)) = Cardinality(RunStarts(content_lines))

C5_Witness ==
    /\ fpc = "done"
    /\ content_lines = <<TextAb, TextC, BlankNl, TextC>>
    /\ processed_blocks = << <<"text", <<"a","b"," ","c">> >>, <<"text", <<"c">> >> >>

-----------------------------------------------------------------------------
(* C6 *)

\* C6: in the loop, right after an image line the accumulator is empty and the
\* image block is the last block; and when process_content has returned, for every
\* image line the blocks are the blocks of the lines before it, then its image
\* block, then the blocks of the lines after it.
C6_ImageNeverMerged ==
    /\ (fpc = "loop" /\ i > 0 /\ content_lines[i] \in ImageLines) =>
          /\ current_paragraph = <<>>
          /\ processed_blocks # <<>>
          /\ IsImage(processed_blocks[Len(processed_blocks)])
    /\ fpc = "done" =>
          \A k \in 1..Len(content_lines) :
              content_lines[k] \in ImageLines =>
                  LET before == ProcessedBlocks(SubSeq(content_lines, 1, k - 1))
                      after == ProcessedBlocks(SubSeq(content_lines, k + 1, Len(content_lines)))
                  IN  /\ Len(processed_blocks) = Len(before) + 1 + Len(after)
                      /\ SubSeq(processed_blocks, 1, Len(before)) = before
                      /\ processed_blocks[Len(before) + 1] =
                            <<"image", UrlOfLine(content_lines[k]), AlignOfLine(content_lines[k])>>
                      /\ SubSeq(processed_blocks, Len(before) + 2, Len(processed_blocks)) = after

C6_Witness ==
    /\ fpc = "done"
    /\ content_lines = <<TextAb, BlankNl, ImgCenter, TextC>>
    /\ processed_blocks =
          << <<"text", <<"a","b">> >>, <<"image", UrlY, center>>, <<"text", <<"c">> >> >>

-----------------------------------------------------------------------------
(* C7 *)

\* s occurs in t as a run of consecutive symbols
OccursIn(s, t) == \E k \in 0..(Len(t) - Len(s)) : SubSeq(t, k + 1, k + Len(s)) = s

\* C7: a malformed image line is handled as text.  In the loop, right after such a
\* line it is the last entry of the accumulator; the image blocks emitted so far
\* are as many as the image lines consumed so far; and when process_content has
\* returned, the malformed line stands in a text block, joined by a single space
\* to the text line or malformed line right before it.
C7_MalformedIsText ==
    /\ (fpc = "loop" /\ i > 0 /\ content_lines[i] \in MalformedLines) =>
          /\ current_paragraph # <<>>
          /\ current_paragraph[Len(current_paragraph)] = TrimOf(content_lines[i])
    /\ fpc \in {"loop", "render", "done"} =>
          Len(SelectSeq(processed_blocks, IsImage)) =
             Cardinality({k \in 1..i : content_lines[k] \in ImageLines})
    /\ fpc = "done" =>
          \A k \in 1..Len(content_lines) :
              content_lines[k] \in MalformedLines =>
                  \E b \in 1..Len(processed_blocks) :
                      /\ IsText(processed_blocks[b])
                      /\ OccursIn(TrimOf(content_lines[k]), processed_blocks[b][2])
                      /\ (k > 1 /\ IsTextLine(content_lines[k - 1])) =>
                            OccursIn(TrimOf(content_lines[k - 1]) \o Space \o TrimOf(content_lines[k]),
                                     processed_blocks[b][2])

C7_Witness ==
    /\ fpc = "done"
    /\ content_lines = <<TextAb, BadExt, TextC>>
    /\ Len(processed_blocks) = 1
    /\ IsText(processed_blocks[1])

-----------------------------------------------------------------------------
(* What the claims about add_blog_post_to_html are stated with.  Offsets   *)
(* count from 0; the symbol at offset o of html is html[o + 1].            *)

\* html with post put in at offset o
Splice(html, o, post) == SubSeq(html, 1, o) \o post \o SubSeq(html, o + 1, Len(html))

Least(S) == CHOOSE m \in S : \A x \in S : m <= x
Greatest(S) == CHOOSE m \in S : \A x \in S : m >= x

HasHeading(html) == \E k \in 1..Len(html) : html[k] = H1Blog

\* the offset right after the first heading marker
HeadEnd(html) == Least({k \in 1..Len(html) : html[k] = H1Blog})

\* the offsets at or after the end of the heading marker where sym stands
After(html, sym) == {o \in HeadEnd(html)..(Len(html) - 1) : html[o + 1] = sym}

HasAnchor(html) ==
    After(html, DivBlogPost) \cup After(html, AddMoreComment) \cup After(html, DivClose) # {}

\* the anchor by priority: post container, else comment marker, else closing tag
Anchor(html) ==
    IF After(html, DivBlogPost) # {} THEN Least(After(html, DivBlogPost))
    ELSE IF After(html, AddMoreComment) # {} THEN Least(After(html, AddMoreComment))
    ELSE Least(After(html, DivClose))

\* the start of the anchor's line: right after the last newline that lies between
\* the heading marker and the anchor, and offset 0 when there is none
AnchorLineStart(html) ==
    LET nls == {o \in HeadEnd(html)..(Anchor(html) - 1) : html[o + 1] = NL}
    IN  IF nls = {} THEN 0 ELSE Greatest(nls) + 1

\* invocation 1 has returned True
Succeeded == upc[1] = "done" /\ ret[1] = "True"

\* the stored document is the one invocation 1 read with its post put in at o
PostPutInAt(o) ==
    \E now \in Dates :
        blog_html = Splice(html_content[1], o, NewPostHtml(title[1], now, content[1]))

-----------------------------------------------------------------------------
(* C1 *)

\* C1: when a call follows a call that succeeded with the same title, it returns
\* False with the duplicate-title message and the stored document is the one the
\* first call left.
C1_SecondCallIsDuplicate ==
    (upc[1] = "done" /\ prev # <<>> /\ prev[2] = "True" /\ prev[1] = title[1]) =>
        /\ ret[1] = "False"
        /\ msg[1] = "duplicate"
        /\ blog_html = prev[3]

C1_Witness ==
    /\ upc[1] = "done" /\ prev # <<>> /\ prev[2] = "True" /\ prev[1] = title[1]
    /\ title[1] = <<"a">>
    /\ ret[1] = "False"
    /\ html_content[1] = prev[3]

-----------------------------------------------------------------------------
(* C2 *)

\* a newline lies between the heading marker and the anchor
NewlineBeforeAnchor(html) ==
    \E o \in HeadEnd(html)..(Anchor(html) - 1) : html[o + 1] = NL

\* C2 as stated: on success the post is put in immediately before the anchor, the
\* anchor being the first post container after the heading marker, else the
\* comment marker after it, else the first closing tag after it.  Taken here on
\* the documents where a newline lies between the heading marker and the anchor,
\* so that the defect of C10 plays no part.
C2_ImmediatelyBeforeAnchor ==
    (Succeeded /\ NewlineBeforeAnchor(html_content[1])) =>
        PostPutInAt(Anchor(html_content[1]))

\* C2 as amended: on success the post is put in immediately before the first post
\* container after the heading marker; if there is none, at the start of the line
\* of the comment marker after the heading marker; if there is none, at the start
\* of the line of the first closing tag after the heading marker.  The start of the
\* line is the offset after the last newline between the heading marker and the
\* anchor, and offset 0 of the document when no newline lies between them.
C2_AnchorByPriority ==
    Succeeded =>
        IF After(html_content[1], DivBlogPost) # {}
        THEN PostPutInAt(Anchor(html_content[1]))
        ELSE PostPutInAt(AnchorLineStart(html_content[1]))

\* the comment marker is used, indented on its line, with a closing tag after it
C2_Witness ==
    /\ Succeeded
    /\ html_content[1] = DocComment
    /\ PostPutInAt(4)
    /\ Anchor(html_content[1]) = 5

-----------------------------------------------------------------------------
(* C10 *)

\* C10: on success the post is put in at or after the end of the heading marker,
\* the text before and after it unchanged.
C10_NeverBeforeHeading ==
    Succeeded =>
        \E o \in HeadEnd(html_content[1])..Len(html_content[1]) : PostPutInAt(o)

-----------------------------------------------------------------------------
(* C3 *)

\* the title's heading stands in html
HasTitle(html, t) == OccursIn(HeadingTag(t), html)

\* one of the failures of the page update holds of what invocation 1 read
FailureOf(html, t) ==
    IF HasTitle(html, t) THEN "duplicate"
    ELSE IF ~HasHeading(html) THEN "no heading"
    ELSE IF ~HasAnchor(html) THEN "no insertion point"
    ELSE "none"

C3_FailureLeavesDocument ==
    /\ (upc[1] = "done" /\ FailureOf(html_content[1], title[1]) # "none") =>
          /\ ret[1] = "False"
          /\ msg[1] = FailureOf(html_content[1], title[1])
          /\ blog_html = html_content[1]
    /\ (upc[1] = "done" /\ ret[1] = "False") => FailureOf(html_content[1], title[1]) # "none"
    /\ (mpc = "done" /\ post_file = <<>>) => (result = None /\ calls = 0 /\ upc[1] = "idle")

C3_WrittenOnlyAfterChecks ==
    blog_html' # blog_html =>
        /\ upc[1] \in {"open", "write"}
        /\ post_file # <<>>
        /\ FailureOf(html_content[1], title[1]) = "none"
        /\ blog_html = html_content[1] \/ upc[1] = "write"

\* C3: a run of main that meets an empty post file, a duplicate title, a missing
\* heading marker or a heading with no anchor after it returns False (or never
\* calls the page update, for the empty file) with the matching message and the
\* stored document unchanged; and the stored document changes only in the open and
\* write of an invocation whose checks have all passed.
C3_FailuresWriteNothing == []C3_FailureLeavesDocument /\ [][C3_WrittenOnlyAfterChecks]_vars

C3_Witness ==
    /\ mpc = "done"
    /\ post_file = <<TitleA, BlankNl, TextAb>>
    /\ blog_html = DocHasA
    /\ ret[1] = "False" /\ msg[1] = "duplicate"

-----------------------------------------------------------------------------
(* C8 *)

\* the lines of the file from the third on
LinesFromThird(lines) == [k \in 1..(IF Len(lines) > 2 THEN Len(lines) - 2 ELSE 0) |-> lines[k + 2]]

\* C8: for a post file of at least one line, read_blog_post returns the first line
\* trimmed and the lines from the third on; those lines, and not the second, are
\* what process_content is given; and main goes on to the page update with that
\* title and the rendered body, also when the title or the body is empty.
C8_TitleAndBody ==
    post_file # <<>> =>
        /\ mpc # "read" => result = <<TrimOf(post_file[1]), LinesFromThird(post_file)>>
        /\ mpc \in {"format", "update", "done"} => content_lines = LinesFromThird(post_file)
        /\ mpc \in {"update", "done"} =>
              /\ calls = 1
              /\ title[1] = TrimOf(post_file[1])
              /\ content[1] = ProcessContent(LinesFromThird(post_file))
        /\ mpc = "done" => upc[1] = "done"

\* an empty title, a second line that is an image line, no body
C8_Witness ==
    /\ mpc = "done"
    /\ post_file = <<BlankNl, ImgLeft>>
    /\ title[1] = <<>>
    /\ content[1] = <<>>
    /\ upc[1] = "done"

-----------------------------------------------------------------------------
(* C9 *)

BothDone == \A p \in Procs : upc[p] = "done"

Other(p) == CHOOSE q \in Procs : q # p

\* C9 as stated: when both invocations have returned, the stored document is the
\* text the last writer wrote.
C9_LastWriterWins ==
    (BothDone /\ last_writer # 0) => blog_html = updated_html[last_writer]

\* C9 as amended: when both invocations have returned, the stored document starts
\* with the text the last writer wrote, and is that text alone unless the other
\* invocation also wrote and its text was longer: then the end of the other's
\* text can follow it.
C9_LastWriterFirst ==
    (BothDone /\ last_writer # 0) =>
        LET p == last_writer
            q == Other(last_writer)
        IN  \/ blog_html = updated_html[p]
            \/ /\ ret[q] = "True"
               /\ Len(updated_html[q]) > Len(updated_html[p])
               /\ blog_html = updated_html[p] \o From(updated_html[q], Len(updated_html[p]))

\* a lost update: both returned True, the document is the last writer's text and
\* the other's post is not in it
C9_Witness ==
    /\ BothDone
    /\ ret[1] = "True" /\ ret[2] = "True"
    /\ title[1] # title[2]
    /\ last_writer # 0
    /\ blog_html = updated_html[last_writer]
    /\ ~HasTitle(blog_html, title[Other(last_writer)])

====
